---- MODULE Spec2Model ----
(***************************************************************************)
(* Model of the kinded derive macro: the parse stage                       *)
(* (kinded_macros/src/parse.rs), followed by the generation stage and the  *)
(* generated kind() projection that the test suite exercises.              *)
(*                                                                         *)
(* One derive expansion is a run of the state machine: the host compiler   *)
(* hands a DeriveInput to parse_derive_input, whose Result is either       *)
(* turned into the companion type (Generate) or into a compile error       *)
(* (Abort); on a generated type, kind() is called on values (CallKind).    *)
(***************************************************************************)
EXTENDS Naturals, Sequences, FiniteSets

VARIABLES derive_input, pc, result, stderr, artifact, call

vars == <<derive_input, pc, result, stderr, artifact, call>>

----------------------------------------------------------------------------
(* Bounds of the explored inputs.                                          *)

MaxAttrs == 3
MaxVariants == 2
MaxFields == 1
MaxPayload == 2

----------------------------------------------------------------------------
(* Tokens of an attribute's argument list.  A parenthesised group such as  *)
(* (Hash, Eq) is a single token tree.                                      *)

Id(s) == [ty |-> "ident", s |-> s]
Pn(s) == [ty |-> "punct", s |-> s]
Lit(s) == [ty |-> "literal", s |-> s]
Grp(s) == [ty |-> "group", s |-> s]

(* Source locations.  at = "attr": a whole attribute; "token": token tok   *)
(* of attribute attr's argument list; "end": the end of that argument      *)
(* list (or of the attribute, when it has none); "ident": the type's name. *)
AttrSpan(i) == [at |-> "attr", attr |-> i, tok |-> 0]
TokenSpan(i, j) == [at |-> "token", attr |-> i, tok |-> j]
EndSpan(i) == [at |-> "end", attr |-> i, tok |-> 0]
IdentSpan == [at |-> "ident", attr |-> 0, tok |-> 0]

(* Attributes: #[path(tokens)] (style "list") or #[path] (style "path").   *)
Attr(path, style, tokens) == [path |-> path, style |-> style, tokens |-> tokens]
Kinded(tokens) == Attr("kinded", "list", tokens)
KindedBare == Attr("kinded", "path", <<>>)
AllowDeadCode == Attr("allow", "list", <<Id("dead_code")>>)

(* Argument lists tried inside #[kinded(..)]: the documented forms and     *)
(* malformed ones.                                                         *)
KindSimpleDrink == <<Id("kind"), Pn("="), Id("SimpleDrink")>>
KindTwiceComma ==
    <<Id("kind"), Pn("="), Id("A"), Pn(","), Id("kind"), Pn("="), Id("B")>>
KindTwice == <<Id("kind"), Pn("="), Id("A"), Id("kind"), Pn("="), Id("B")>>
BogusOne == <<Id("bogus"), Pn("="), Lit("1")>>
DeriveHashEq == <<Id("derive"), Grp("(Hash, Eq)")>>
DisplaySnake == <<Id("display"), Pn("="), Lit("\"snake_case\"")>>
Contents ==
    { KindSimpleDrink, KindTwiceComma, KindTwice, BogusOne, DeriveHashEq,
      DisplaySnake, <<>>, <<Id("kind")>>,
      <<Id("kind"), Pn("="), Lit("1")>>,
      <<Lit("1"), Pn("="), Id("Foo")>> }

AttrSet == {AllowDeadCode, KindedBare} \cup {Kinded(c) : c \in Contents}

SeqsUpTo(S, n) == UNION {[1..k -> S] : k \in 0..n}

----------------------------------------------------------------------------
(* The derive input (syn::DeriveInput).                                    *)

None == [some |-> FALSE, ident |-> ""]
Some(id) == [some |-> TRUE, ident |-> id]

(* Raw field syntax of a variant: Unit, tuple fields or named fields, with *)
(* the number of fields.                                                   *)
RawFields ==
    {[tag |-> "Unit", n |-> 0]}
    \cup {[tag |-> t, n |-> k] : t \in {"Unnamed", "Named"}, k \in 0..MaxFields}

VariantIdents == {"Mate", "Coffee", "Tea"}
RawVariants == [ident : VariantIdents, fields : RawFields]

DistinctIdents(vs) ==
    \A i, j \in DOMAIN vs : i # j => vs[i].ident # vs[j].ident

VariantSeqs == {vs \in SeqsUpTo(RawVariants, MaxVariants) : DistinctIdents(vs)}

(* enum Role { Guest, User(i32), Admin { id: i32 } } of the test suite.    *)
RoleVariants ==
    << [ident |-> "Guest", fields |-> [tag |-> "Unit", n |-> 0]],
       [ident |-> "User", fields |-> [tag |-> "Unnamed", n |-> 1]],
       [ident |-> "Admin", fields |-> [tag |-> "Named", n |-> 1]] >>

DataEnum(vs) == [tag |-> "Enum", variants |-> vs]
DataStruct == [tag |-> "Struct", variants |-> <<>>]
DataUnion == [tag |-> "Union", variants |-> <<>>]

DeriveInput(vis, ident, attrs, data) ==
    [vis |-> vis, ident |-> ident, attrs |-> attrs, data |-> data]

(* Inputs that vary the attribute surface, on the test suite's Role.       *)
AttributeInputs ==
    { DeriveInput("inherited", "Role", as, d) :
        as \in SeqsUpTo(AttrSet, MaxAttrs),
        d \in {DataEnum(RoleVariants), DataStruct, DataUnion} }

(* Inputs that vary the variant list, with the documented attribute forms. *)
VariantInputs ==
    { DeriveInput(v, id, as, DataEnum(vs)) :
        v \in {"pub", "inherited"},
        id \in {"Drink", "Maybe"},
        as \in {<<>>, <<Kinded(KindSimpleDrink)>>,
                <<AllowDeadCode, Kinded(KindSimpleDrink)>>},
        vs \in VariantSeqs }

Inputs == AttributeInputs \cup VariantInputs

----------------------------------------------------------------------------
(* Results (Result<T, syn::Error>).  A syn::Error is a list of located     *)
(* messages; syn::Error::new builds one with exactly one message.          *)

NoValue == [none |-> TRUE]
NoResult == [tag |-> "None", value |-> NoValue, errors |-> <<>>]
Ok(x) == [tag |-> "Ok", value |-> x, errors |-> <<>>]
Err(span, msg) ==
    [tag |-> "Err", value |-> NoValue, errors |-> <<[span |-> span, msg |-> msg]>>]

(* KindedAttributes::default(): no override name, nothing else requested.  *)
KindedAttributes_default == [kind |-> None, derive |-> <<>>, display |-> None]

(* The positions, in input.attrs, of the attributes whose path is kinded.  *)
KindedPositions(input) ==
    SelectSeq([i \in 1..Len(input.attrs) |-> i],
              LAMBDA i : input.attrs[i].path = "kinded")

(* Faulty variant: reports the second kinded attribute, not the last.     *)
find_kinded_attr_second(input) ==
    LET kinded_attrs == KindedPositions(input) IN
    IF Len(kinded_attrs) > 1
    THEN Err(AttrSpan(kinded_attrs[2]),
             "Multiple #[kinded(..)] attributes are not allowed.")
    ELSE IF Len(kinded_attrs) = 0
         THEN Ok([some |-> FALSE, idx |-> 0])
         ELSE Ok([some |-> TRUE, idx |-> kinded_attrs[1]])

(* find_kinded_attr: the attribute found is given by its position.         *)
find_kinded_attr(input) ==
    LET kinded_attrs == KindedPositions(input) IN
    IF Len(kinded_attrs) > 1
    THEN Err(AttrSpan(kinded_attrs[Len(kinded_attrs)]),
             "Multiple #[kinded(..)] attributes are not allowed.")
    ELSE IF Len(kinded_attrs) = 0
         THEN Ok([some |-> FALSE, idx |-> 0])
         ELSE Ok([some |-> TRUE, idx |-> kinded_attrs[1]])

(* A parse step's outcome: the result and the number of tokens of the      *)
(* argument list it consumed.                                              *)
Parsed(res, used) == [res |-> res, used |-> used]

(* Faulty variant: an unrecognised key is skipped instead of rejected.     *)
KindedAttributes_parse_lenient(attr, i) ==
    LET toks == attr.tokens
        kinded_attrs == KindedAttributes_default
    IN
    IF attr.style # "list"
    THEN Parsed(Err(EndSpan(i), "unexpected end of input, expected parentheses"), 0)
    ELSE IF Len(toks) = 0
    THEN Parsed(Err(EndSpan(i), "unexpected end of input, expected identifier"), 0)
    ELSE IF toks[1].ty # "ident"
    THEN Parsed(Err(TokenSpan(i, 1), "expected identifier"), 0)
    ELSE IF toks[1].s = "kind" /\ Len(toks) >= 3 /\ toks[2] = Pn("=")
            /\ toks[3].ty = "ident"
    THEN Parsed(Ok([kinded_attrs EXCEPT !.kind = Some(toks[3].s)]), 3)
    ELSE Parsed(Ok(kinded_attrs), Len(toks))

(* Faulty variant: the value of kind is parsed but not stored.             *)
KindedAttributes_parse_default(attr, i) ==
    LET toks == attr.tokens
        kinded_attrs == KindedAttributes_default
    IN
    IF attr.style # "list"
    THEN Parsed(Err(EndSpan(i), "unexpected end of input, expected parentheses"), 0)
    ELSE IF Len(toks) = 0
    THEN Parsed(Err(EndSpan(i), "unexpected end of input, expected identifier"), 0)
    ELSE IF toks[1].ty # "ident"
    THEN Parsed(Err(TokenSpan(i, 1), "expected identifier"), 0)
    ELSE IF toks[1].s = "kind" /\ Len(toks) >= 3 /\ toks[2] = Pn("=")
            /\ toks[3].ty = "ident"
    THEN Parsed(Ok(kinded_attrs), 3)
    ELSE Parsed(Err(TokenSpan(i, 1), "Unknown attribute: " \o toks[1].s), 1)

(* impl Parse for KindedAttributes, on attribute i of the input: unwrap    *)
(* #[kinded( .. )], then one key.  kinded_attrs is the fresh default, and  *)
(* only one key is read.  The messages of failed input.parse() calls are   *)
(* syn's, written here without its quoting of the expected token.          *)
KindedAttributes_parse(attr, i) ==
    LET toks == attr.tokens
        kinded_attrs == KindedAttributes_default
    IN
    IF attr.style # "list"
    THEN Parsed(Err(EndSpan(i), "unexpected end of input, expected parentheses"), 0)
    ELSE IF Len(toks) = 0
    THEN Parsed(Err(EndSpan(i), "unexpected end of input, expected identifier"), 0)
    ELSE IF toks[1].ty # "ident"
    THEN Parsed(Err(TokenSpan(i, 1), "expected identifier"), 0)
    ELSE LET attr_name == toks[1].s IN
    IF attr_name = "kind"
    THEN IF Len(toks) < 2
         THEN Parsed(Err(EndSpan(i), "unexpected end of input, expected ="), 1)
         ELSE IF toks[2] # Pn("=")
         THEN Parsed(Err(TokenSpan(i, 2), "expected ="), 1)
         ELSE IF Len(toks) < 3
         THEN Parsed(Err(EndSpan(i), "unexpected end of input, expected identifier"), 2)
         ELSE IF toks[3].ty # "ident"
         THEN Parsed(Err(TokenSpan(i, 3), "expected identifier"), 2)
         ELSE IF kinded_attrs.kind = None
         THEN Parsed(Ok([kinded_attrs EXCEPT !.kind = Some(toks[3].s)]), 3)
         ELSE Parsed(Err(TokenSpan(i, 1), "Duplicated attribute: " \o attr_name), 3)
    ELSE Parsed(Err(TokenSpan(i, 1), "Unknown attribute: " \o attr_name), 1)

(* syn::parse2: run the parser; a successful parse that leaves tokens of   *)
(* the argument list unconsumed is an error at the first of them.          *)
parse2(attr, i) ==
    LET p == KindedAttributes_parse(attr, i) IN
    IF p.res.tag = "Err" THEN p.res
    ELSE IF p.used < Len(attr.tokens)
         THEN Err(TokenSpan(i, p.used + 1), "unexpected token")
         ELSE p.res

(* Faulty variant: every variant is classified Unit.                       *)
parse_fields_type_unit(fields) == "Unit"

parse_fields_type(fields) ==
    CASE fields.tag = "Named" -> "Named"
      [] fields.tag = "Unnamed" -> "Unnamed"
      [] fields.tag = "Unit" -> "Unit"

parse_variant(variant) ==
    [ident |-> variant.ident, fields_type |-> parse_fields_type(variant.fields)]

(* Faulty variant: the variants come out in another order.                 *)
parse_variants_rotated(variants) ==
    LET vs == [i \in DOMAIN variants |-> parse_variant(variants[i])] IN
    IF Len(vs) > 1 THEN Tail(vs) \o <<Head(vs)>> ELSE vs

(* data.variants.iter().map(parse_variant).collect()                       *)
parse_variants(variants) ==
    [i \in DOMAIN variants |-> parse_variant(variants[i])]

Meta(vis, ident, variants, kinded_attrs) ==
    [vis |-> vis, ident |-> ident, variants |-> variants,
     kinded_attrs |-> kinded_attrs]

(* Faulty variant: structs and unions are accepted like enums.             *)
match_data_any(input, kinded_attrs) ==
    Ok(Meta(input.vis, input.ident, parse_variants(input.data.variants),
            kinded_attrs))

(* The match on input.data and the construction of Meta.                   *)
match_data(input, kinded_attrs) ==
    IF input.data.tag = "Enum"
    THEN Ok(Meta(input.vis, input.ident, parse_variants(input.data.variants),
                 kinded_attrs))
    ELSE Err(IdentSpan, "Kinded can be derived only on enums")

(* The value parse_derive_input returns.                                   *)
parse_derive_input(input) ==
    LET found == find_kinded_attr(input) IN
    IF found.tag = "Err" THEN found
    ELSE LET parsed == IF found.value.some
                       THEN parse2(input.attrs[found.value.idx], found.value.idx)
                       ELSE Ok(KindedAttributes_default)
         IN IF parsed.tag = "Err" THEN parsed
            ELSE match_data(input, parsed.value)

(* What the eprintln! of the input writes: its pretty Debug form.          *)
DebugPretty(input) == [stream |-> "stderr", debug |-> input]

----------------------------------------------------------------------------
(* The generation stage and the generated code.                            *)

NoMeta == Meta("", "", <<>>, KindedAttributes_default)
NoArtifact == [generated |-> FALSE, name |-> "", vis |-> "", variants |-> <<>>,
               arms |-> <<>>]

(* Meta::kind_name: the override, else the type's name followed by Kind.   *)
kind_name(meta) ==
    IF meta.kinded_attrs.kind.some
    THEN meta.kinded_attrs.kind.ident
    ELSE meta.ident \o "Kind"

(* The companion enum and the arms of the generated fn kind(): one per     *)
(* variant of the model, in order, with the pattern its fields_type gives  *)
(* (Unit: T::V, Unnamed: T::V(..), Named: T::V {..}).                    *)
generate(meta) ==
    [generated |-> TRUE,
     name |-> kind_name(meta),
     vis |-> meta.vis,
     variants |-> [i \in DOMAIN meta.variants |-> meta.variants[i].ident],
     arms |-> [i \in DOMAIN meta.variants |->
                 [ident |-> meta.variants[i].ident,
                  pattern |-> meta.variants[i].fields_type]]]

(* The values of the derived enum: a declared variant and a payload.       *)
PayloadsOf(fields) == IF fields.n = 0 THEN {0} ELSE 1..MaxPayload

Values(inp) ==
    UNION { { [variant |-> inp.data.variants[i].ident,
               shape |-> inp.data.variants[i].fields.tag,
               payload |-> p] : p \in PayloadsOf(inp.data.variants[i].fields) }
            : i \in DOMAIN inp.data.variants }

(* Whether a pattern of the given form is accepted for, and matches, a     *)
(* variant declared with the given shape.  A brace pattern with .. is      *)
(* accepted for every shape.                                               *)
PatternFits(pattern, shape) == pattern = "Named" \/ pattern = shape

KindValue(ty, variant) == [ty |-> ty, variant |-> variant]
NoKind == KindValue("", "")

(* v.kind(): the first arm for v's variant; the code does not compile when *)
(* that arm's pattern does not fit, or when no arm names the variant.      *)
kind(art, v) ==
    LET hits == SelectSeq(art.arms, LAMBDA a : a.ident = v.variant) IN
    IF Len(hits) > 0 /\ PatternFits(hits[1].pattern, v.shape)
    THEN KindValue(art.name, hits[1].ident)
    ELSE NoKind

NoCall == [some |-> FALSE, v |-> [variant |-> "", shape |-> "", payload |-> 0],
           k |-> NoKind]

----------------------------------------------------------------------------
(* The state machine.                                                      *)

Init ==
    /\ derive_input \in Inputs
    /\ pc = "input"
    /\ result = NoResult
    /\ stderr = <<>>
    /\ artifact = NoArtifact
    /\ call = NoCall

(* One call of parse_derive_input: the debug print, then the result.       *)
ParseDeriveInput ==
    /\ pc = "input"
    /\ stderr' = Append(stderr, DebugPretty(derive_input))
    /\ result' = parse_derive_input(derive_input)
    /\ pc' = "parsed"
    /\ UNCHANGED <<derive_input, artifact, call>>

(* The model is turned into the generated items.                           *)
Generate ==
    /\ pc = "parsed"
    /\ result.tag = "Ok"
    /\ artifact' = generate(result.value)
    /\ pc' = "generated"
    /\ UNCHANGED <<derive_input, result, stderr, call>>

(* The error is turned into a compile error; nothing is generated.         *)
Abort ==
    /\ pc = "parsed"
    /\ result.tag = "Err"
    /\ pc' = "aborted"
    /\ UNCHANGED <<derive_input, result, stderr, artifact, call>>

(* kind() is called on a value of the derived enum.                        *)
CallKind ==
    /\ pc = "generated"
    /\ \E v \in Values(derive_input) :
         call' = [some |-> TRUE, v |-> v, k |-> kind(artifact, v)]
    /\ pc' = "called"
    /\ UNCHANGED <<derive_input, result, stderr, artifact>>

Next == ParseDeriveInput \/ Generate \/ Abort \/ CallKind

Spec == Init /\ [][Next]_vars

----------------------------------------------------------------------------
(* Vocabulary of the properties.                                           *)

Returned == pc # "input"
KP == KindedPositions(derive_input)
IsEnum == derive_input.data.tag = "Enum"
TheBlock == derive_input.attrs[KP[1]]
MultipleMsg == "Multiple #[kinded(..)] attributes are not allowed."
StructuralMsg == "Kinded can be derived only on enums"

(* #[kinded(kind = X)], X an identifier, and nothing else in the block.    *)
IsKindBlock(attr) ==
    /\ attr.path = "kinded"
    /\ attr.style = "list"
    /\ Len(attr.tokens) = 3
    /\ attr.tokens[1] = Id("kind")
    /\ attr.tokens[2] = Pn("=")
    /\ attr.tokens[3].ty = "ident"

(* The default companion names of the enums explored.                      *)
DefaultName(ident) ==
    CASE ident = "Role" -> "RoleKind"
      [] ident = "Drink" -> "DrinkKind"
      [] ident = "Maybe" -> "MaybeKind"

(* C1: kind() of a value is the companion variant named like the value's   *)
(* variant, whatever the shape and payload: every value of the same        *)
(* variant has that kind and no value of another variant has it.           *)
C1_KindIsVariant ==
    call.some =>
      /\ call.k = KindValue(artifact.name, call.v.variant)
      /\ \A w \in Values(derive_input) :
           (kind(artifact, w) = call.k) <=> (w.variant = call.v.variant)

C1_Witness ==
    /\ call.some
    /\ call.v.shape = "Named"
    /\ call.v.payload = 2
    /\ Len(derive_input.data.variants) = 2
    /\ derive_input.data.variants[1].fields.tag = "Unnamed"
    /\ call.k.variant = call.v.variant

(* C2: a successful parse yields a model, and a companion type, with the   *)
(* declaration's variants: same number, same identifiers, same order, each *)
(* with the one shape class of its field syntax.                           *)
C2_VariantsPreserved ==
    (Returned /\ result.tag = "Ok") =>
      LET vs == derive_input.data.variants
          ms == result.value.variants
      IN /\ Len(ms) = Len(vs)
         /\ \A i \in 1..Len(vs) :
              /\ ms[i].ident = vs[i].ident
              /\ ms[i].fields_type \in {"Unit", "Unnamed", "Named"}
              /\ ms[i].fields_type = vs[i].fields.tag
         /\ artifact.generated =>
              artifact.variants = [i \in 1..Len(vs) |-> vs[i].ident]

C2_Witness ==
    /\ artifact.generated
    /\ Len(derive_input.data.variants) = 2
    /\ derive_input.data.variants[1].fields.tag = "Named"
    /\ derive_input.data.variants[2].fields.tag = "Unit"
    /\ result.value.variants[1].fields_type = "Named"

(* C3: on an enum, the companion type is named by the override of          *)
(* #[kinded(kind = Foo)], and by the enum's name followed by Kind when no  *)
(* #[kinded(..)] block is attached; neither case is an error.              *)
C3_KindName ==
    (Returned /\ IsEnum) =>
      /\ Len(KP) = 0 =>
           /\ result.tag = "Ok"
           /\ artifact.generated => artifact.name = DefaultName(derive_input.ident)
      /\ (Len(KP) = 1 /\ IsKindBlock(TheBlock)) =>
           /\ result.tag = "Ok"
           /\ artifact.generated => artifact.name = TheBlock.tokens[3].s

C3_Witness ==
    /\ artifact.generated
    /\ derive_input.ident = "Drink"
    /\ derive_input.attrs = <<AllowDeadCode, Kinded(KindSimpleDrink)>>
    /\ artifact.name = "SimpleDrink"

(* C4 as claimed: #[kinded(derive(Hash, Eq))] on an enum is accepted and   *)
(* the configuration carries Hash, Eq in order.                            *)
C4_DeriveAccepted ==
    (Returned /\ IsEnum /\ Len(KP) = 1 /\ TheBlock = Kinded(DeriveHashEq)) =>
      /\ result.tag = "Ok"
      /\ result.value.kinded_attrs.derive = <<"Hash", "Eq">>

(* C5 as claimed: #[kinded(display = "snake_case")] on an enum is accepted *)
(* and the configuration records the style.                                *)
C5_DisplayAccepted ==
    (Returned /\ IsEnum /\ Len(KP) = 1 /\ TheBlock = Kinded(DisplaySnake)) =>
      /\ result.tag = "Ok"
      /\ result.value.kinded_attrs.display = Some("snake_case")

(* C6 as claimed: more than one #[kinded(..)] block is rejected with the   *)
(* multiple-blocks error located at the second block.                      *)
C6_ErrorAtSecondBlock ==
    (Returned /\ Len(KP) > 1) =>
      /\ result.tag = "Err"
      /\ result.errors = <<[span |-> AttrSpan(KP[2]), msg |-> MultipleMsg]>>
      /\ ~artifact.generated

(* C6 amended: more than one #[kinded(..)] block is rejected with the      *)
(* multiple-blocks error located at the last block, which is the second    *)
(* when exactly two are attached; nothing is generated.                    *)
C6_ErrorAtLastBlock ==
    (Returned /\ Len(KP) > 1) =>
      /\ result.tag = "Err"
      /\ result.errors = <<[span |-> AttrSpan(KP[Len(KP)]), msg |-> MultipleMsg]>>
      /\ Len(KP) = 2 => result.errors[1].span = AttrSpan(KP[2])
      /\ ~artifact.generated
      /\ pc \notin {"generated", "called"}

C6_Witness ==
    /\ pc = "aborted"
    /\ Len(KP) = 3
    /\ result.errors[1].span = AttrSpan(3)
    /\ result.errors[1].msg = MultipleMsg

(* C7: a single #[kinded(..)] block whose first key is an identifier       *)
(* outside kind, display, derive is rejected with one error that names the *)
(* key and is located at the key; nothing is generated.                    *)
C7_UnknownKeyRejected ==
    (/\ Returned
     /\ Len(KP) = 1
     /\ TheBlock.style = "list"
     /\ Len(TheBlock.tokens) > 0
     /\ TheBlock.tokens[1].ty = "ident"
     /\ TheBlock.tokens[1].s \notin {"kind", "display", "derive"}) =>
      /\ result.tag = "Err"
      /\ result.errors =
           <<[span |-> TokenSpan(KP[1], 1),
              msg |-> "Unknown attribute: " \o TheBlock.tokens[1].s]>>
      /\ ~artifact.generated
      /\ pc \notin {"generated", "called"}

C7_Witness ==
    /\ pc = "aborted"
    /\ IsEnum
    /\ derive_input.attrs = <<AllowDeadCode, Kinded(BogusOne)>>
    /\ result.errors[1].msg = "Unknown attribute: bogus"
    /\ result.errors[1].span = TokenSpan(2, 1)

(* C8: on a struct or a union the result is never a model: it is one       *)
(* located error and nothing is generated; when the attributes raise no    *)
(* error, it is the structural error at the type's identifier.             *)
C8_NonEnumRejected ==
    (Returned /\ ~IsEnum) =>
      /\ result.tag = "Err"
      /\ Len(result.errors) = 1
      /\ ~artifact.generated
      /\ pc \notin {"generated", "called"}
      /\ (Len(KP) = 0 \/ (Len(KP) = 1 /\ IsKindBlock(TheBlock))) =>
           result.errors = <<[span |-> IdentSpan, msg |-> StructuralMsg]>>

C8_Witness ==
    /\ pc = "aborted"
    /\ derive_input.data.tag = "Union"
    /\ derive_input.attrs = <<Kinded(KindSimpleDrink)>>
    /\ result.errors = <<[span |-> IdentSpan, msg |-> StructuralMsg]>>

(* C9 as claimed: kind given twice in one block fails with                 *)
(* "Duplicated attribute: kind" located at the second kind key.            *)
C9_DuplicateKindReported ==
    (Returned /\ Len(KP) = 1 /\ TheBlock.style = "list"
       /\ TheBlock.tokens \in {KindTwiceComma, KindTwice}) =>
      /\ result.tag = "Err"
      /\ result.errors =
           <<[span |-> TokenSpan(KP[1], Len(TheBlock.tokens) - 2),
              msg |-> "Duplicated attribute: kind"]>>

(* C10 as claimed: a call of parse_derive_input writes nothing to any      *)
(* output stream.                                                          *)
C10_NoOutput == stderr = <<>>

====
